---- MODULE Spec2Model ----
(***************************************************************************)
(* Model of the sug CLI (supertab): the complete and predict commands,     *)
(* the four provider clients and the response interpreter parseResponse.   *)
(*                                                                         *)
(* Text is modelled as a sequence of one-character strings, so that        *)
(* trimming, prefix stripping and printing are computed character by       *)
(* character as the Go code does on bytes.                                 *)
(*                                                                         *)
(* One run of the model is one process invocation: the command resolves    *)
(* its provider, issues its HTTP request, and on the reply runs the rest   *)
(* of the handler (client decoding, parsing, validation, printing, exit).  *)
(***************************************************************************)
EXTENDS Integers, Sequences, FiniteSets, TLC

\* Longest model text (in characters) the provider may answer with.
MaxLen == 3

\* Characters the model text is drawn from: both prefixes, one whitespace
\* character and one ordinary character.
Alphabet == {"+", "=", " ", "a"}

Texts == UNION {[1..n -> Alphabet] : n \in 0..MaxLen}

\* Whitespace characters strings.TrimSpace removes (those TLA+ can write).
Whitespace == {" ", "\t", "\n", "\r", "\f"}

ProviderOpenAI == "openai"
ProviderAnthropic == "anthropic"
ProviderGemini == "gemini"
ProviderGroq == "groq"

ProviderNames == {ProviderOpenAI, ProviderAnthropic, ProviderGemini, ProviderGroq}

TypeCompletion == "completion"
TypeReplacement == "replacement"
TypePrediction == "prediction"

EnvVars == {"OPENAI_API_KEY", "ANTHROPIC_API_KEY", "GEMINI_API_KEY", "GROQ_API_KEY"}

\* The key each environment variable holds when it is set; the keys differ,
\* so that a key taken from the wrong variable shows.
ApiKeys == [OPENAI_API_KEY |-> "key-openai", ANTHROPIC_API_KEY |-> "key-anthropic",
            GEMINI_API_KEY |-> "key-gemini", GROQ_API_KEY |-> "key-groq"]

\* An environment variable is unset/empty or holds its key.
KeyValues(v) == {"", ApiKeys[v]}

Environments ==
    {e \in [EnvVars -> {""} \cup {ApiKeys[v] : v \in EnvVars}] :
        \A v \in EnvVars : e[v] \in KeyValues(v)}

\* Default of the --timeout flag of complete and of predict, in seconds.
CompleteDefaultTimeout == 30
PredictDefaultTimeout == 10

\* Values of the --timeout flag: 0 stands for "flag not passed".
TimeoutFlags == {0, 7}

\* Values of the timeout option of the configuration document: 0 stands
\* for "not set".
ConfigTimeouts == {0, 5}

\* HTTP status codes of a reply: one 2xx, one not.
Statuses == {200, 500}

\* Values of the provider option (flag or configuration file): unset, one of
\* the four names, or a name no client exists for.
ProviderOptions == {""} \cup ProviderNames \cup {"bogus"}

\* Largest number of aliases of a Context; the aliases are named 1..n.
MaxAliases == 16

\* Alias lines a completion prompt and a prediction prompt hold at most.
CompletionAliasLimit == 10
PredictionAliasLimit == 15

\* Length above which an entry's output is cut to lines, lines kept, and
\* characters of an error output kept.
OutputLimit == 200
OutputLineLimit == 3
ErrorLimit == 100

\* Longest output and error output of a history entry.
MaxOutputLen == 202
MaxErrorLen == 102

\* A text of n characters, every nl-th of them a newline (none if nl = 0).
Chars(n, nl) == [p \in 1..n |-> IF nl > 0 /\ p % nl = 0 THEN "\n" ELSE "x"]

\* Outputs of history entries: empty, short, short with many lines, and
\* around OutputLimit with one line, with three lines and with many.
Outputs ==
    {Chars(n, nl) : n \in {0, 1, 9}, nl \in {0, 2}}
        \cup {Chars(n, nl) : n \in (OutputLimit - 1)..MaxOutputLen, nl \in {0, 60, 100}}

\* Error outputs: empty, short (also with whitespace around) and around
\* ErrorLimit.
ErrorOutputs ==
    {Chars(n, 0) : n \in {0, 1} \cup ((ErrorLimit - 1)..MaxErrorLen)}
        \cup {<<" ", "x", " ">>}

HistoryEntries ==
    {[Command |-> "ls", Output |-> o, ErrorOutput |-> e, ExitCode |-> IF e = <<>> THEN 0 ELSE 1]
        : o \in Outputs, e \in ErrorOutputs}

SimpleEntry == [Command |-> "ls", Output |-> <<"x">>, ErrorOutput |-> <<>>, ExitCode |-> 0]

\* Histories, oldest entry first.
Histories ==
    {<<>>} \cup {<<e>> : e \in HistoryEntries}
        \cup {<<SimpleEntry, e>> : e \in {f \in HistoryEntries : f.ErrorOutput = <<>>}}

\* A Context with every optional field empty, and one with all of them set.
BareContext ==
    [User |-> "u", Shell |-> "zsh", Directory |-> "", Platform |-> "", IsGitRepo |-> FALSE,
     GitBranch |-> "", K8sAvailable |-> FALSE, CurrentContext |-> "", CurrentNamespace |-> "",
     ClusterInfo |-> ""]

FullContext ==
    [User |-> "u", Shell |-> "zsh", Directory |-> "/tmp", Platform |-> "linux", IsGitRepo |-> TRUE,
     GitBranch |-> "main", K8sAvailable |-> TRUE, CurrentContext |-> "prod", CurrentNamespace |-> "ns",
     ClusterInfo |-> "info"]

\* What the shell holds when prompts are studied: every number of aliases
\* against a short history in both contexts, and every history without
\* aliases.
PromptInputs ==
    {[context |-> c, aliases |-> n, history |-> h] :
        c \in {BareContext, FullContext}, n \in 0..MaxAliases, h \in {<<>>, <<SimpleEntry>>}}
        \cup {[context |-> BareContext, aliases |-> 0, history |-> h] : h \in Histories}

\* Longest model text when the CLI runs under a widget.
MaxWidgetLen == 2

\* Characters of the model text under a widget: '%' is what the widgets'
\* clean-up strips from the end of the CLI's output.
WidgetAlphabet == {"+", "=", "a", "%"}

WidgetTexts == UNION {[1..n -> WidgetAlphabet] : n \in 0..MaxWidgetLen}

\* What the server answers when the CLI runs under a widget.
WidgetReplies ==
    {[kind |-> "api_error", status |-> 500, text |-> <<>>]}
        \cup {[kind |-> "ok", status |-> 200, text |-> t] : t \in WidgetTexts}

\* A temporary file that does not exist, and the two files the widgets use.
NoFile == [exists |-> FALSE, content |-> <<>>]
NoTmpFiles ==
    [suggestion |-> NoFile, prediction |-> NoFile, error |-> NoFile,
     prediction_error |-> NoFile]

\* Files an earlier request left behind.
StaleTmpFiles ==
    [suggestion |-> [exists |-> TRUE, content |-> <<"=", "a", "\n">>],
     prediction |-> [exists |-> TRUE, content |-> <<"=", "a", "\n">>],
     error |-> NoFile, prediction_error |-> NoFile]

\* What the user has typed when a widget's key is pressed.
Buffers == {<<>>, <<"l">>, <<"l", "\n">>, <<"\"">>}

\* Values of ZSH_COPILOT_TIMEOUT in seconds, "30s" unless the user set it.
WidgetTimeouts == {30, 7}

\* Default of --history-limit, and the limit the prediction widget passes.
HistoryLimitDefault == 5
WidgetHistoryLimit == 5

\* Values of --history-limit.
HistoryLimits == {-1, 0, 1, 2, HistoryLimitDefault}

\* Most lines of a history file.
MaxHistoryLines == 3

CmdLs == <<"l", "s">>
CmdCd == <<"c", "d">>
CmdGitStatus == <<"g", "i", "t", " ", "s", "t", "a", "t", "u", "s">>
CmdKubectl == <<"k", "u", "b", "e", "c", "t", "l">>

\* The start of a line in zsh's extended history format.
ExtendedStamp == <<":", " ", "1", ":", "0", ";">>

\* Lines of a history file: plain and extended commands, a blank line and
\* an extended line without a command.
HistoryLines ==
    {CmdLs, CmdCd, CmdGitStatus, ExtendedStamp \o CmdKubectl, <<" ">> \o CmdCd \o <<" ">>,
     <<" ">>, ExtendedStamp}

UnreadableFile == [readable |-> FALSE, lines |-> <<>>]

HistoryFiles ==
    {UnreadableFile}
        \cup {[readable |-> TRUE, lines |-> l] :
                l \in UNION {[1..n -> HistoryLines] : n \in 0..MaxHistoryLines}}

\* What the HTTP exchange can come to before the text is looked at.
FailedReplyKinds == {"send_failed", "read_failed", "bad_json", "api_error", "no_content"}

\* A reply is the outcome of the exchange, the status code of the HTTP
\* response (0 when there is none) and the text of the first choice.
Replies ==
    {[kind |-> k, status |-> 0, text |-> <<>>] : k \in {"send_failed", "read_failed"}}
        \cup {[kind |-> k, status |-> st, text |-> <<>>] :
                 k \in {"bad_json", "api_error", "no_content"}, st \in Statuses}
        \cup {[kind |-> "ok", status |-> st, text |-> t] : st \in Statuses, t \in Texts}

NoReply == [kind |-> "none", status |-> 0, text |-> <<>>]

\* A nil *Response.
NoResponse == [Type |-> "none", Content |-> <<>>]

VARIABLES
    env,          \* the API-key environment variables
    providerOpt,  \* viper's "provider" option
    command,      \* "none", "complete" or "predict"
    pc,           \* "start", "waiting" (HTTP request in flight), "exited"
    client,       \* provider of the client NewClient built, "none" before
    apiKey,       \* the API key of the client's Config, "" before
    cfgTimeout,   \* timeout option of the configuration document, 0 if not set
    timeoutFlag,  \* value of --timeout, 0 if the flag was not passed
    deadline,     \* timeout of the request context, 0 before it is created
    deadlinePassed, \* the request context's deadline has elapsed
    contextCollected, \* contextCollector.Collect() has run
    context,      \* the facts Collect() finds (aliases apart)
    aliases,      \* number of aliases the shell defines, named 1..aliases
    history,      \* the History of the PredictionRequest, oldest first
    prompt,       \* the parts of the user prompt sent, <<>> before
    historyFile,  \* the shell's history file: readable or not, and its lines
    aliasesFail,  \* the commands and files collectAliases reads all fail
    stdinText,    \* the text waiting on standard input, "" if none
    historyLimit, \* value of --history-limit
    input,        \* the input runComplete found, "" before
    widget,       \* the zle widget that runs the CLI: "none", "suggest", "predict"
    fePc,         \* the widget's position: "idle", "fetching", "fetched", "done"
    BUFFER,       \* the line editor's buffer
    CURSOR,       \* the cursor's position in BUFFER
    POSTDISPLAY,  \* text shown after the buffer
    zleInput,     \* texts pushed with zle -U, in order
    suggested,    \* texts handed to _zsh_autosuggest_suggest, in order
    historyMoves, \* calls of zle down-line-or-history
    tmpFiles,     \* /tmp/zsh_copilot_suggestion and /tmp/zsh_copilot_prediction
    fetchCode,    \* return code of _fetch_suggestions / _fetch_prediction, -1 before
    branch,       \* the branch the widget ended in, "none" before
    silentErrors, \* ZSH_COPILOT_SILENT_ERRORS is 'true'
    debug,        \* ZSH_COPILOT_DEBUG is 'true'
    cliRuns,      \* executions of the CLI by _fetch_suggestions / _fetch_prediction
    feRequests,   \* HTTP requests those executions issued
    messageRead,  \* the text the widget read from its result file, <<>> before
    httpRequests, \* number of HTTP requests issued
    reply,        \* the HTTP reply the client received
    response,     \* the *Response the client returned
    stdout,       \* characters written to standard output
    err,          \* the error the command returned ("" for nil)
    exitCode      \* process exit status, -1 while running

feVars == <<widget, fePc, BUFFER, CURSOR, POSTDISPLAY, zleInput, suggested,
            historyMoves, tmpFiles, fetchCode, branch, silentErrors, debug, cliRuns,
            feRequests, messageRead>>

shellVars == <<historyFile, aliasesFail, stdinText>>

vars == <<feVars, shellVars, historyLimit, input, env, providerOpt, command, pc, client, apiKey, cfgTimeout, timeoutFlag,
          deadline, deadlinePassed, contextCollected, context, aliases, history,
          prompt, httpRequests, reply, response, stdout, err, exitCode>>

----------------------------------------------------------------------------
\* strings.TrimSpace

IsSpace(c) == c \in Whitespace

RECURSIVE TrimLeft(_)
TrimLeft(s) ==
    IF s = <<>> THEN s
    ELSE IF IsSpace(Head(s)) THEN TrimLeft(Tail(s)) ELSE s

RECURSIVE TrimRight(_)
TrimRight(s) ==
    IF s = <<>> THEN s
    ELSE IF IsSpace(s[Len(s)]) THEN TrimRight(SubSeq(s, 1, Len(s) - 1)) ELSE s

\* Variant: removes at most one whitespace character from each end.
TrimSpaceOnce(s) ==
    LET l == IF s # <<>> /\ IsSpace(Head(s)) THEN Tail(s) ELSE s IN
    IF l # <<>> /\ IsSpace(l[Len(l)]) THEN SubSeq(l, 1, Len(l) - 1) ELSE l

TrimSpace(s) == TrimRight(TrimLeft(s))

----------------------------------------------------------------------------
\* The response interpreter.

Ok(resp) == [resp |-> resp, err |-> ""]
Fail(e) == [resp |-> NoResponse, err |-> e]

\* Variant: the completion payload is trimmed again after the prefix is cut.
parseResponseTrimsPayload(raw) ==
    LET content == TrimSpace(raw) IN
    IF Len(content) = 0 THEN Fail("empty response")
    ELSE IF content[1] = "+"
        THEN Ok([Type |-> TypeCompletion, Content |-> TrimSpace(Tail(content))])
    ELSE IF content[1] = "="
        THEN Ok([Type |-> TypeReplacement, Content |-> Tail(content)])
    ELSE Ok([Type |-> TypePrediction, Content |-> content])

\* Variant: the '=' case is missing from the switch.
parseResponseNoReplacement(raw) ==
    LET content == TrimSpace(raw) IN
    IF Len(content) = 0 THEN Fail("empty response")
    ELSE IF content[1] = "+"
        THEN Ok([Type |-> TypeCompletion, Content |-> Tail(content)])
    ELSE Ok([Type |-> TypePrediction, Content |-> content])

\* Variant: the default case cuts the first character like the other two.
parseResponseDefaultCuts(raw) ==
    LET content == TrimSpace(raw) IN
    IF Len(content) = 0 THEN Fail("empty response")
    ELSE IF content[1] = "+"
        THEN Ok([Type |-> TypeCompletion, Content |-> Tail(content)])
    ELSE IF content[1] = "="
        THEN Ok([Type |-> TypeReplacement, Content |-> Tail(content)])
    ELSE Ok([Type |-> TypePrediction, Content |-> Tail(content)])

\* Variant: the length check is made before trimming.
parseResponseChecksUntrimmed(raw) ==
    LET content == TrimSpace(raw) IN
    IF Len(raw) = 0 THEN Fail("empty response")
    ELSE IF content # <<>> /\ content[1] = "+"
        THEN Ok([Type |-> TypeCompletion, Content |-> Tail(content)])
    ELSE IF content # <<>> /\ content[1] = "="
        THEN Ok([Type |-> TypeReplacement, Content |-> Tail(content)])
    ELSE Ok([Type |-> TypePrediction, Content |-> content])

parseResponse(raw) ==
    LET content == TrimSpace(raw) IN
    IF Len(content) = 0 THEN Fail("empty response")
    ELSE IF content[1] = "+"
        THEN Ok([Type |-> TypeCompletion, Content |-> Tail(content)])
    ELSE IF content[1] = "="
        THEN Ok([Type |-> TypeReplacement, Content |-> Tail(content)])
    ELSE Ok([Type |-> TypePrediction, Content |-> content])

----------------------------------------------------------------------------
\* The provider clients.

\* The error the HTTP exchange and the JSON decoding end in, "" when the
\* reply carries content.
TransportError(r) ==
    CASE r.kind = "send_failed" -> "failed to send request"
      [] r.kind = "read_failed" -> "failed to read response"
      [] r.kind = "bad_json"    -> "failed to unmarshal response"
      [] r.kind = "api_error"   -> "API error"
      [] r.kind = "no_content"  -> "no content in response"
      [] OTHER                  -> ""

\* Variant: the request is built without the context, so Do does not see
\* the deadline.
DoWithoutContext(ctxDone, r) == r

\* c.client.Do on a request built with the command's context: once the
\* deadline has elapsed the call is abandoned and returns an error, whatever
\* the server sends.
Do(ctxDone, r) ==
    IF ctxDone THEN [kind |-> "send_failed", status |-> 0, text |-> <<>>] ELSE r

makeRequest(r) ==
    IF TransportError(r) # "" THEN Fail(TransportError(r))
    ELSE parseResponse(r.text)

makeRawRequest(r) ==
    IF TransportError(r) # "" THEN [content |-> <<>>, err |-> TransportError(r)]
    ELSE [content |-> TrimSpace(r.text), err |-> ""]

Complete(p, r) == makeRequest(r)

RawPredict(r) ==
    LET raw == makeRawRequest(r) IN
    IF raw.err # "" THEN Fail(raw.err)
    ELSE Ok([Type |-> TypePrediction, Content |-> raw.content])

Predict(p, r) ==
    IF p \in {ProviderOpenAI, ProviderAnthropic} THEN RawPredict(r)
    ELSE makeRequest(r)

----------------------------------------------------------------------------
\* Prompt assembly.  A prompt is the sequence of its parts (joined with
\* newlines when sent); a part is its label and its text.

Part(label, text) == [kind |-> label, text |-> text]

Min(a, b) == IF a < b THEN a ELSE b

\* The aliases a range over the alias map yields before it breaks at limit:
\* the map's iteration order is not fixed; k is where it starts.
AliasOrders(n) == IF n = 0 THEN {0} ELSE 0..(n - 1)

\* Variant: the loop breaks one alias late.
AliasLinesOneMore(n, k, limit) ==
    [j \in 1..Min(n, limit + 1) |-> Part("alias", ((k + j - 1) % n) + 1)]

AliasLines(n, k, limit) ==
    [j \in 1..Min(n, limit) |-> Part("alias", ((k + j - 1) % n) + 1)]

buildCompletionPrompt(ctx, n, k) ==
    <<Part("INPUT", "input")>>
    \o (IF ctx.Directory # "" THEN <<Part("DIRECTORY", ctx.Directory)>> ELSE <<>>)
    \o (IF ctx.Platform # "" THEN <<Part("PLATFORM", ctx.Platform)>> ELSE <<>>)
    \o (IF ctx.IsGitRepo THEN <<Part("GIT", ctx.GitBranch)>> ELSE <<>>)
    \o (IF n > 0 THEN <<Part("header", "ALIASES:")>> \o AliasLines(n, k, CompletionAliasLimit)
        ELSE <<>>)
    \o (IF ctx.K8sAvailable THEN <<Part("K8S", ctx.CurrentContext)>> ELSE <<>>)
    \o <<Part("USER", ctx.User), Part("SHELL", ctx.Shell)>>

\* strings.Split(s, "\n") and strings.Join(lines, "\n").
NewlinesOf(s) == {i \in 1..Len(s) : s[i] = "\n"}

NthNewline(s, k) ==
    CHOOSE p \in NewlinesOf(s) : Cardinality({q \in NewlinesOf(s) : q < p}) = k - 1

Split(s) ==
    LET n == Cardinality(NewlinesOf(s)) IN
    [k \in 1..(n + 1) |->
        SubSeq(s, (IF k = 1 THEN 0 ELSE NthNewline(s, k - 1)) + 1,
                  (IF k = n + 1 THEN Len(s) + 1 ELSE NthNewline(s, k)) - 1)]

RECURSIVE Join(_)
Join(lines) ==
    IF lines = <<>> THEN <<>>
    ELSE IF Len(lines) = 1 THEN lines[1]
    ELSE lines[1] \o <<"\n">> \o Join(Tail(lines))

TruncatedMarker == <<".", ".", ".", "(", "t", "r", "u", "n", "c", "a", "t", "e", "d", ")">>

OutputNotAvailable ==
    <<"[", "c", "o", "m", "m", "a", "n", "d", " ", "o", "u", "t", "p", "u", "t", " ",
      "n", "o", "t", " ", "a", "v", "a", "i", "l", "a", "b", "l", "e", "]">>

\* The text of an entry's "Output:" line.
RenderOutput(output) ==
    LET lines == Split(output)
        cut == IF Len(output) > OutputLimit
               THEN Join(IF Len(lines) > OutputLineLimit
                         THEN SubSeq(lines, 1, OutputLineLimit) \o <<TruncatedMarker>>
                         ELSE lines)
               ELSE output
    IN TrimSpace(cut)

\* The text of an entry's "Error:" line.
RenderError(errorOutput) ==
    TrimSpace(IF Len(errorOutput) > ErrorLimit
              THEN SubSeq(errorOutput, 1, ErrorLimit) \o TruncatedMarker
              ELSE errorOutput)

\* The parts of one history entry.
EntryParts(i, entry) ==
    <<[kind |-> "Command", index |-> i, text |-> entry.Command, exit |-> entry.ExitCode]>>
    \o (IF entry.Output # <<>> /\ entry.Output # OutputNotAvailable
        THEN <<Part("Output", RenderOutput(entry.Output))>> ELSE <<>>)
    \o (IF entry.ErrorOutput # <<>>
        THEN <<Part("Error", RenderError(entry.ErrorOutput))>> ELSE <<>>)

RECURSIVE HistoryParts(_, _)
HistoryParts(h, i) ==
    IF i > Len(h) THEN <<>> ELSE EntryParts(i, h[i]) \o HistoryParts(h, i + 1)

\* Variant: the history header is added whether or not there are entries.
buildPredictionPromptAlwaysHeader(ctx, h, n, k) ==
    <<Part("TASK", "predict")>>
    \o <<Part("header", "\nRECENT HISTORY:")>> \o HistoryParts(h, 1)
    \o <<Part("header", "\nCURRENT CONTEXT:"),
         Part("Directory", ctx.Directory), Part("User", ctx.User),
         Part("Platform", ctx.Platform), Part("Shell", ctx.Shell), Part("Time", "now"),
         Part("Git Repository", IF ctx.IsGitRepo THEN ctx.GitBranch ELSE "No")>>
    \o (IF ctx.K8sAvailable
        THEN <<Part("Kubernetes", ctx.CurrentContext)>>
             \o (IF ctx.ClusterInfo # "" THEN <<Part("Cluster", ctx.ClusterInfo)>> ELSE <<>>)
        ELSE <<Part("Kubernetes", "Not available")>>)
    \o (IF n > 0
        THEN <<Part("header", "\nAVAILABLE ALIASES:")>> \o AliasLines(n, k, PredictionAliasLimit)
        ELSE <<>>)
    \o <<Part("QUESTION", "what command is the user most likely to run next?")>>

buildPredictionPrompt(ctx, h, n, k) ==
    <<Part("TASK", "predict")>>
    \o (IF Len(h) > 0
        THEN <<Part("header", "\nRECENT HISTORY:")>> \o HistoryParts(h, 1)
        ELSE <<>>)
    \o <<Part("header", "\nCURRENT CONTEXT:"),
         Part("Directory", ctx.Directory), Part("User", ctx.User),
         Part("Platform", ctx.Platform), Part("Shell", ctx.Shell), Part("Time", "now"),
         Part("Git Repository", IF ctx.IsGitRepo THEN ctx.GitBranch ELSE "No")>>
    \o (IF ctx.K8sAvailable
        THEN <<Part("Kubernetes", ctx.CurrentContext)>>
             \o (IF ctx.ClusterInfo # "" THEN <<Part("Cluster", ctx.ClusterInfo)>> ELSE <<>>)
        ELSE <<Part("Kubernetes", "Not available")>>)
    \o (IF n > 0
        THEN <<Part("header", "\nAVAILABLE ALIASES:")>> \o AliasLines(n, k, PredictionAliasLimit)
        ELSE <<>>)
    \o <<Part("QUESTION", "what command is the user most likely to run next?")>>

\* The user prompt a command's client builds.
BuildPrompt(cmd, ctx, h, n, k) ==
    IF cmd = "complete" THEN buildCompletionPrompt(ctx, n, k)
    ELSE buildPredictionPrompt(ctx, h, n, k)

----------------------------------------------------------------------------
\* History collection.

HasPrefix(t, prefix) ==
    Len(t) >= Len(prefix) /\ SubSeq(t, 1, Len(prefix)) = prefix

\* strings.Index: the first position of character c in t, 0 if none.
IndexOf(t, c) ==
    IF \E i \in DOMAIN t : t[i] = c
    THEN CHOOSE i \in DOMAIN t : t[i] = c /\ \A j \in 1..(i - 1) : t[j] # c
    ELSE 0

\* parseHistoryLine: the entry of a trimmed line.
parseHistoryLine(line) ==
    LET semi == IndexOf(line, ";")
        cmd == IF HasPrefix(line, <<":", " ">>) /\ semi > 0
               THEN SubSeq(line, semi + 1, Len(line))
               ELSE line
    IN [Command |-> TrimSpace(cmd), Output |-> <<>>, ErrorOutput |-> <<>>, ExitCode |-> 0]

RECURSIVE ParsedEntries(_)
\* The scanner loop of parseHistoryFile: the entries of the lines that
\* hold a command.
ParsedEntries(lines) ==
    IF lines = <<>> THEN <<>>
    ELSE LET line == TrimSpace(Head(lines))
             entry == parseHistoryLine(line)
         IN (IF line # <<>> /\ entry.Command # <<>> THEN <<entry>> ELSE <<>>)
            \o ParsedEntries(Tail(lines))

Collected(entries) == [entries |-> entries, err |-> "", panic |-> FALSE]

\* Variant: the last entry is returned with the others.
parseHistoryFileKeepsLast(file, limit) ==
    IF ~file.readable THEN [entries |-> <<>>, err |-> "open failed", panic |-> FALSE]
    ELSE LET entries == ParsedEntries(file.lines)
             start == IF Len(entries) - limit < 0 THEN 0 ELSE Len(entries) - limit
         IN IF start > Len(entries)
            THEN [entries |-> <<>>, err |-> "", panic |-> TRUE]
            ELSE Collected(SubSeq(entries, start + 1, Len(entries)))

\* parseHistoryFile: the last limit entries before the final one; slicing
\* from beyond the end panics.
parseHistoryFile(file, limit) ==
    IF ~file.readable THEN [entries |-> <<>>, err |-> "open failed", panic |-> FALSE]
    ELSE LET all == ParsedEntries(file.lines) IN
         IF Len(all) <= 1 THEN Collected(<<>>)
         ELSE LET entries == SubSeq(all, 1, Len(all) - 1)
                  start == IF Len(entries) - limit < 0 THEN 0 ELSE Len(entries) - limit
              IN IF start > Len(entries)
                 THEN [entries |-> <<>>, err |-> "", panic |-> TRUE]
                 ELSE Collected(SubSeq(entries, start + 1, Len(entries)))

GitStatusNotAvailable == <<"[", "g", "i", "t", " ", "s", "t", "a", "t", "u", "s", " ", "o", "u", "t", "p", "u", "t", " ", "n", "o", "t", " ", "a", "v", "a", "i", "l", "a", "b", "l", "e", "]">>

KubectlNotAvailable == <<"[", "k", "u", "b", "e", "c", "t", "l", " ", "o", "u", "t", "p", "u", "t", " ", "n", "o", "t", " ", "a", "v", "a", "i", "l", "a", "b", "l", "e", "]">>

\* The placeholder enrichWithOutputs gives a command, <<>> if none.
PlaceholderOf(cmd) ==
    IF HasPrefix(cmd, CmdLs) THEN OutputNotAvailable
    ELSE IF HasPrefix(cmd, CmdGitStatus) THEN GitStatusNotAvailable
    ELSE IF HasPrefix(cmd, CmdKubectl) THEN KubectlNotAvailable
    ELSE <<>>

enrichWithOutputs(entries) ==
    [i \in DOMAIN entries |->
        [Command |-> entries[i].Command, Output |-> PlaceholderOf(entries[i].Command),
         ErrorOutput |-> <<>>, ExitCode |-> 0]]

GetRecentHistory(file, limit) ==
    LET r == parseHistoryFile(file, limit) IN
    IF r.err # "" \/ r.panic THEN r ELSE Collected(enrichWithOutputs(r.entries))

\* Variant: the aliases are known although every source fails.
collectAliasesDespiteFailure(n, fails) == n

\* collectAliases: the aliases of the Context; none when every source
\* fails.
collectAliases(n, fails) == IF fails THEN 0 ELSE n

----------------------------------------------------------------------------
\* Provider resolution.

\* Variant: Gemini is looked up before Anthropic.
DetectProviderGeminiFirst(e) ==
    IF e["OPENAI_API_KEY"] # "" THEN <<ProviderOpenAI, e["OPENAI_API_KEY"]>>
    ELSE IF e["GEMINI_API_KEY"] # "" THEN <<ProviderGemini, e["GEMINI_API_KEY"]>>
    ELSE IF e["ANTHROPIC_API_KEY"] # "" THEN <<ProviderAnthropic, e["ANTHROPIC_API_KEY"]>>
    ELSE IF e["GROQ_API_KEY"] # "" THEN <<ProviderGroq, e["GROQ_API_KEY"]>>
    ELSE <<"", "">>

DetectProvider(e) ==
    IF e["OPENAI_API_KEY"] # "" THEN <<ProviderOpenAI, e["OPENAI_API_KEY"]>>
    ELSE IF e["ANTHROPIC_API_KEY"] # "" THEN <<ProviderAnthropic, e["ANTHROPIC_API_KEY"]>>
    ELSE IF e["GEMINI_API_KEY"] # "" THEN <<ProviderGemini, e["GEMINI_API_KEY"]>>
    ELSE IF e["GROQ_API_KEY"] # "" THEN <<ProviderGroq, e["GROQ_API_KEY"]>>
    ELSE <<"", "">>

KeyVarOf(name) ==
    CASE name = "openai"    -> "OPENAI_API_KEY"
      [] name = "anthropic" -> "ANTHROPIC_API_KEY"
      [] name = "gemini"    -> "GEMINI_API_KEY"
      [] name = "groq"      -> "GROQ_API_KEY"

\* The provider name and key a command settles on, or the error it returns.
ResolveProvider(opt, e) ==
    IF opt = "" THEN
        LET d == DetectProvider(e) IN
        IF d[1] = "" THEN [provider |-> "", apiKey |-> "", err |-> "no AI provider found"]
        ELSE IF d[2] = "" THEN [provider |-> d[1], apiKey |-> "", err |-> "API key not found"]
        ELSE [provider |-> d[1], apiKey |-> d[2], err |-> ""]
    ELSE IF opt \notin ProviderNames
        THEN [provider |-> opt, apiKey |-> "", err |-> "unsupported provider"]
    ELSE IF e[KeyVarOf(opt)] = ""
        THEN [provider |-> opt, apiKey |-> "", err |-> "API key not found"]
    ELSE [provider |-> opt, apiKey |-> e[KeyVarOf(opt)], err |-> ""]

NewClient(config) ==
    IF config.apiKey = "" THEN [client |-> "none", err |-> "API key is required"]
    ELSE IF config.provider \in ProviderNames THEN [client |-> config.provider, err |-> ""]
    ELSE [client |-> "none", err |-> "unsupported provider"]

\* Variant: a named provider gets its client even when resolution failed.
CreateClientIgnoresKey(opt, e) ==
    LET cfg == ResolveProvider(opt, e) IN
    IF cfg.err # "" /\ cfg.provider \notin ProviderNames
        THEN [client |-> "none", apiKey |-> "", err |-> cfg.err]
    ELSE [client |-> cfg.provider, apiKey |-> cfg.apiKey, err |-> ""]

\* Resolution followed by NewClient: the client, or the configuration error.
CreateClient(opt, e) ==
    LET cfg == ResolveProvider(opt, e) IN
    IF cfg.err # "" THEN [client |-> "none", apiKey |-> "", err |-> cfg.err]
    ELSE [client |-> NewClient(cfg).client,
          apiKey |-> IF NewClient(cfg).err = "" THEN cfg.apiKey ELSE "",
          err |-> NewClient(cfg).err]

\* cmd.Flags().GetDuration("timeout"): the flag's value, or its default.
GetTimeout(flag, default) == IF flag # 0 THEN flag ELSE default

----------------------------------------------------------------------------
\* What the commands do with the client's *Response.

\* Variant: the replacement case prints the content without its prefix.
CompleteOutputNoReplacementPrefix(resp) ==
    IF resp.Type = TypeCompletion THEN <<"+">> \o resp.Content
    ELSE resp.Content

\* The switch at the end of runComplete.
CompleteOutput(resp) ==
    IF resp.Type = TypeCompletion THEN <<"+">> \o resp.Content
    ELSE IF resp.Type = TypeReplacement THEN <<"=">> \o resp.Content
    ELSE resp.Content

\* Variant: only the emptiness check is made.
PredictValidationLenient(rawContent) ==
    IF Len(rawContent) = 0 THEN "empty response from AI"
    ELSE ""

\* Variant: the prefix condition is inverted.
PredictValidationInverted(rawContent) ==
    IF Len(rawContent) = 0 THEN "empty response from AI"
    ELSE IF rawContent[1] = "+" \/ rawContent[1] = "=" THEN "invalid response format"
    ELSE ""

\* The validation at the end of runPredict: the error it returns, "" when
\* the content is printed.
PredictValidation(rawContent) ==
    IF Len(rawContent) = 0 THEN "empty response from AI"
    ELSE IF rawContent[1] # "+" /\ rawContent[1] # "=" THEN "invalid response format"
    ELSE ""

\* runComplete from client.Complete on: the *Response, the error returned
\* and the characters printed.
CompleteResult(p, r) ==
    LET res == Complete(p, r) IN
    IF res.err # "" THEN [resp |-> res.resp, err |-> res.err, out |-> <<>>]
    ELSE [resp |-> res.resp, err |-> "", out |-> CompleteOutput(res.resp)]

\* runPredict from client.Predict on.
PredictResult(p, r) ==
    LET res == Predict(p, r) IN
    IF res.err # "" THEN [resp |-> res.resp, err |-> res.err, out |-> <<>>]
    ELSE IF PredictValidation(res.resp.Content) # ""
        THEN [resp |-> res.resp, err |-> PredictValidation(res.resp.Content), out |-> <<>>]
    ELSE [resp |-> res.resp, err |-> "", out |-> res.resp.Content]

----------------------------------------------------------------------------

Init ==
    /\ env \in Environments
    /\ providerOpt \in ProviderOptions
    /\ cfgTimeout \in ConfigTimeouts
    /\ command = "none"
    /\ pc = "start"
    /\ client = "none"
    /\ apiKey = ""
    /\ timeoutFlag = 0
    /\ deadline = 0
    /\ deadlinePassed = FALSE
    /\ contextCollected = FALSE
    /\ context = BareContext
    /\ aliases = 0
    /\ history = <<>>
    /\ prompt = <<>>
    /\ httpRequests = 0
    /\ reply = NoReply
    /\ response = NoResponse
    /\ stdout = <<>>
    /\ err = ""
    /\ exitCode = -1
    /\ historyFile = UnreadableFile
    /\ aliasesFail = FALSE
    /\ stdinText = ""
    /\ historyLimit = HistoryLimitDefault
    /\ input = ""
    /\ widget = "none"
    /\ fePc = "idle"
    /\ BUFFER = <<>>
    /\ CURSOR = 0
    /\ POSTDISPLAY = <<>>
    /\ zleInput = <<>>
    /\ suggested = <<>>
    /\ historyMoves = 0
    /\ tmpFiles = NoTmpFiles
    /\ fetchCode = -1
    /\ branch = "none"
    /\ silentErrors = TRUE
    /\ debug = FALSE
    /\ cliRuns = 0
    /\ feRequests = 0
    /\ messageRead = <<>>

\* The state prompts are studied from: one environment, every shell of
\* PromptInputs.
InitPrompt ==
    /\ env = [v \in EnvVars |-> ApiKeys[v]]
    /\ providerOpt = ""
    /\ cfgTimeout = 0
    /\ command = "none"
    /\ pc = "start"
    /\ client = "none"
    /\ apiKey = ""
    /\ timeoutFlag = 0
    /\ deadline = 0
    /\ deadlinePassed = FALSE
    /\ contextCollected = FALSE
    /\ \E i \in PromptInputs :
          context = i.context /\ aliases = i.aliases /\ history = i.history
    /\ prompt = <<>>
    /\ httpRequests = 0
    /\ reply = NoReply
    /\ response = NoResponse
    /\ stdout = <<>>
    /\ err = ""
    /\ exitCode = -1
    /\ historyFile = UnreadableFile
    /\ aliasesFail = FALSE
    /\ stdinText \in {"", "ls"}
    /\ historyLimit = HistoryLimitDefault
    /\ input = ""
    /\ widget = "none"
    /\ fePc = "idle"
    /\ BUFFER = <<>>
    /\ CURSOR = 0
    /\ POSTDISPLAY = <<>>
    /\ zleInput = <<>>
    /\ suggested = <<>>
    /\ historyMoves = 0
    /\ tmpFiles = NoTmpFiles
    /\ fetchCode = -1
    /\ branch = "none"
    /\ silentErrors = TRUE
    /\ debug = FALSE
    /\ cliRuns = 0
    /\ feRequests = 0
    /\ messageRead = <<>>

\* A command returns an error before any request: Execute exits 1.
ExitEarly(cmd, e) ==
    /\ command' = cmd
    /\ pc' = "exited"
    /\ err' = e
    /\ exitCode' = 1
    /\ UNCHANGED <<env, providerOpt, cfgTimeout, client, apiKey, deadlinePassed,
                   contextCollected, context, aliases, history, prompt, httpRequests,
                   reply, response, stdout>>

\* The exit status of a Go program that panics.
PanicExitCode == 2

\* A command panics after it has built its client and collected the
\* context: the runtime prints the panic to stderr and exits.
Panic(cmd, c) ==
    /\ command' = cmd
    /\ pc' = "exited"
    /\ client' = c.client
    /\ apiKey' = c.apiKey
    /\ contextCollected' = TRUE
    /\ err' = "panic: runtime error: slice bounds out of range"
    /\ exitCode' = PanicExitCode
    /\ UNCHANGED <<env, providerOpt, cfgTimeout, deadlinePassed, context, aliases,
                   history, prompt, httpRequests, reply, response, stdout>>

\* A command has its client, the context and the history h of its
\* request: it issues the HTTP request.
SendRequest(cmd, c, h) ==
    /\ command' = cmd
    /\ pc' = "waiting"
    /\ client' = c.client
    /\ apiKey' = c.apiKey
    /\ contextCollected' = TRUE
    /\ history' = h
    /\ LET n == collectAliases(aliases, aliasesFail) IN
       \E k \in AliasOrders(n) : prompt' = BuildPrompt(cmd, context, h, n, k)
    /\ httpRequests' = httpRequests + 1
    /\ UNCHANGED <<env, providerOpt, cfgTimeout, deadlinePassed, context, aliases,
                   reply, response, stdout, err, exitCode>>

\* runComplete up to the HTTP request of client.Complete.
runCompleteStart(args, flagInput, flagTimeout) ==
    /\ pc = "start"
    /\ UNCHANGED <<feVars, shellVars, historyLimit>>
    /\ timeoutFlag' = flagTimeout
    /\ input' = IF Len(args) > 0 THEN args[1] ELSE flagInput
    /\ IF Len(args) = 0 /\ flagInput = ""
       THEN /\ ExitEarly("complete", "input is required")
            /\ deadline' = deadline
       ELSE /\ deadline' = GetTimeout(flagTimeout, CompleteDefaultTimeout)
            /\ LET c == CreateClient(providerOpt, env) IN
               IF c.err # "" THEN ExitEarly("complete", c.err)
               ELSE SendRequest("complete", c, history)

\* runPredict up to the HTTP request of client.Predict.
runPredictStart(flagTimeout, limit) ==
    /\ pc = "start"
    /\ UNCHANGED <<feVars, shellVars, input>>
    /\ timeoutFlag' = flagTimeout
    /\ historyLimit' = limit
    /\ deadline' = GetTimeout(flagTimeout, PredictDefaultTimeout)
    /\ LET c == CreateClient(providerOpt, env)
           recentHistory == GetRecentHistory(historyFile, limit)
       IN
       IF c.err # "" THEN ExitEarly("predict", c.err)
       ELSE IF recentHistory.panic THEN Panic("predict", c)
       ELSE SendRequest("predict", c,
                        IF recentHistory.err # "" THEN <<>> ELSE recentHistory.entries)

\* The timeout of the request's context elapses while the request is in
\* flight.
DeadlineElapses ==
    /\ pc = "waiting"
    /\ ~deadlinePassed
    /\ deadlinePassed' = TRUE
    /\ UNCHANGED <<feVars, shellVars, historyLimit, input>>
    /\ UNCHANGED <<env, providerOpt, command, pc, client, apiKey, cfgTimeout,
                   timeoutFlag, deadline, contextCollected, context, aliases,
                   history, prompt, httpRequests, reply, response, stdout, err,
                   exitCode>>

\* Variant: a failed exchange is tried once more.
runCompleteFinishRetries(r) ==
    /\ pc = "waiting"
    /\ command = "complete"
    /\ UNCHANGED <<feVars, shellVars, historyLimit, input>>
    /\ LET got == Do(deadlinePassed, r)
           res == CompleteResult(client, got)
           again == TransportError(got) # "" /\ httpRequests < 2
       IN
       /\ reply' = got
       /\ response' = res.resp
       /\ err' = IF again THEN err ELSE res.err
       /\ stdout' = stdout \o res.out
       /\ exitCode' = IF again THEN exitCode ELSE IF res.err # "" THEN 1 ELSE 0
       /\ pc' = IF again THEN "waiting" ELSE "exited"
       /\ httpRequests' = IF again THEN httpRequests + 1 ELSE httpRequests
    /\ UNCHANGED <<env, providerOpt, command, client, apiKey, cfgTimeout, timeoutFlag,
                   deadline, deadlinePassed, contextCollected, context, aliases,
                   history, prompt>>

\* The rest of runComplete, from the return of c.client.Do on; r is what
\* the server answers.
runCompleteFinish(r) ==
    /\ pc = "waiting"
    /\ command = "complete"
    /\ UNCHANGED <<feVars, shellVars, historyLimit, input>>
    /\ LET got == Do(deadlinePassed, r)
           res == CompleteResult(client, got)
       IN
       /\ reply' = got
       /\ response' = res.resp
       /\ err' = res.err
       /\ stdout' = stdout \o res.out
       /\ exitCode' = IF res.err # "" THEN 1 ELSE 0
    /\ pc' = "exited"
    /\ UNCHANGED <<env, providerOpt, command, client, apiKey, cfgTimeout, timeoutFlag,
                   deadline, deadlinePassed, contextCollected, context, aliases,
                   history, prompt, httpRequests>>

\* The rest of runPredict, from the return of c.client.Do on.
runPredictFinish(r) ==
    /\ pc = "waiting"
    /\ command = "predict"
    /\ UNCHANGED <<feVars, shellVars, historyLimit, input>>
    /\ LET got == Do(deadlinePassed, r)
           res == PredictResult(client, got)
       IN
       /\ reply' = got
       /\ response' = res.resp
       /\ err' = res.err
       /\ stdout' = stdout \o res.out
       /\ exitCode' = IF res.err # "" THEN 1 ELSE 0
    /\ pc' = "exited"
    /\ UNCHANGED <<env, providerOpt, command, client, apiKey, cfgTimeout, timeoutFlag,
                   deadline, deadlinePassed, contextCollected, context, aliases,
                   history, prompt, httpRequests>>

Next ==
    \/ \E args \in {<<>>, <<"a">>}, flagInput \in {"", "a"}, t \in TimeoutFlags :
          runCompleteStart(args, flagInput, t)
    \/ \E t \in TimeoutFlags : runPredictStart(t, HistoryLimitDefault)
    \/ DeadlineElapses
    \/ \E r \in Replies : runCompleteFinish(r)
    \/ \E r \in Replies : runPredictFinish(r)

Spec == Init /\ [][Next]_vars

\* client.Predict up to its request, on the History of PromptInputs.
buildPredictionRequest ==
    /\ pc = "start"
    /\ command' = "predict"
    /\ pc' = "waiting"
    /\ LET c == CreateClient(providerOpt, env) IN
       client' = c.client /\ apiKey' = c.apiKey
    /\ contextCollected' = TRUE
    /\ \E k \in AliasOrders(aliases) :
          prompt' = buildPredictionPrompt(context, history, aliases, k)
    /\ httpRequests' = httpRequests + 1
    /\ UNCHANGED <<feVars, shellVars, historyLimit, input>>
    /\ UNCHANGED <<env, providerOpt, cfgTimeout, timeoutFlag, deadline, deadlinePassed,
                   context, aliases, history, reply, response, stdout, err, exitCode>>

\* The complete command up to its request and the prediction request,
\* from every shell and History of PromptInputs.
NextPrompt ==
    \/ \E args \in {<<>>, <<"a">>}, flagInput \in {"", "a"}, t \in TimeoutFlags :
          runCompleteStart(args, flagInput, t)
    \/ buildPredictionRequest

SpecPrompt == InitPrompt /\ [][NextPrompt]_vars

\* What the server answers when collection is studied.
CollectReplies ==
    {[kind |-> "api_error", status |-> 500, text |-> <<>>],
     [kind |-> "ok", status |-> 200, text |-> <<"+", "a">>]}

\* The state collection is studied from: every history file with working
\* alias sources, and short files with failing ones.
InitCollect ==
    /\ env = [v \in EnvVars |-> ApiKeys[v]]
    /\ providerOpt \in {"", "bogus"}
    /\ cfgTimeout = 0
    /\ command = "none"
    /\ pc = "start"
    /\ client = "none"
    /\ apiKey = ""
    /\ timeoutFlag = 0
    /\ deadline = 0
    /\ deadlinePassed = FALSE
    /\ contextCollected = FALSE
    /\ context = BareContext
    /\ aliases \in {0, 2}
    /\ history = <<>>
    /\ prompt = <<>>
    /\ httpRequests = 0
    /\ reply = NoReply
    /\ response = NoResponse
    /\ stdout = <<>>
    /\ err = ""
    /\ exitCode = -1
    /\ historyFile \in HistoryFiles
    /\ aliasesFail \in BOOLEAN
    /\ aliasesFail => Len(historyFile.lines) <= 2
    /\ stdinText = ""
    /\ historyLimit = HistoryLimitDefault
    /\ input = ""
    /\ widget = "none"
    /\ fePc = "idle"
    /\ BUFFER = <<>>
    /\ CURSOR = 0
    /\ POSTDISPLAY = <<>>
    /\ zleInput = <<>>
    /\ suggested = <<>>
    /\ historyMoves = 0
    /\ tmpFiles = NoTmpFiles
    /\ fetchCode = -1
    /\ branch = "none"
    /\ silentErrors = TRUE
    /\ debug = FALSE
    /\ cliRuns = 0
    /\ feRequests = 0
    /\ messageRead = <<>>

\* The predict command with every history limit.
NextCollect ==
    \/ \E limit \in HistoryLimits : runPredictStart(0, limit)
    \/ DeadlineElapses
    \/ \E r \in CollectReplies : runPredictFinish(r)

SpecCollect == InitCollect /\ [][NextCollect]_vars

----------------------------------------------------------------------------
\* The zsh front end: the widgets _suggest_ai and _predict_next_command and
\* the functions _fetch_suggestions and _fetch_prediction that run the CLI.

RECURSIVE Without(_, _)
\* tr -d: the text without the characters of cs.
Without(s, cs) ==
    IF s = <<>> THEN s
    ELSE IF Head(s) \in cs THEN Without(Tail(s), cs)
    ELSE <<Head(s)>> \o Without(Tail(s), cs)

RECURSIVE StripTrailing(_, _)
\* sed 's/c*$//': the text without the characters of cs at its end.
StripTrailing(s, cs) ==
    IF s = <<>> THEN s
    ELSE IF s[Len(s)] \in cs THEN StripTrailing(SubSeq(s, 1, Len(s) - 1), cs)
    ELSE s

\* $(...): command substitution drops the newlines at the end.
Substitute(s) == StripTrailing(s, {"\n"})

\* sed 's/[[:space:]]*$//' on every line.
StripLineEnds(s) ==
    Join([k \in DOMAIN Split(s) |-> StripTrailing(Split(s)[k], Whitespace \ {"\n"})])

\* The clean-up of the CLI's output before it is written to the file.
CleanResult(result) ==
    StripTrailing(Without(StripLineEnds(result), {"\n", "\r"}), {"%"})

\* _fetch_suggestions / _fetch_prediction once the CLI has exited: the
\* file is written if the CLI exited 0.
FetchDone ==
    /\ fePc = "fetching"
    /\ pc = "exited"
    /\ fePc' = "fetched"
    /\ fetchCode' = IF exitCode = 0 THEN 0 ELSE 1
    /\ cliRuns' = IF debug THEN 2 ELSE 1
    /\ feRequests' = IF debug THEN 2 * httpRequests ELSE httpRequests
    /\ tmpFiles' =
          IF exitCode = 0
          THEN [tmpFiles EXCEPT
                  ![IF widget = "suggest" THEN "suggestion" ELSE "prediction"] =
                      [exists |-> TRUE,
                       content |-> Append(CleanResult(Substitute(stdout)), "\n")]]
          ELSE IF debug
          THEN [tmpFiles EXCEPT
                  ![IF widget = "suggest" THEN "error" ELSE "prediction_error"] =
                      [exists |-> TRUE,
                       content |-> <<"CLI error: ">> \o Substitute(stdout) \o <<"\n">>]]
          ELSE tmpFiles
    /\ UNCHANGED <<widget, BUFFER, CURSOR, POSTDISPLAY, zleInput, suggested,
                   historyMoves, branch, silentErrors, debug, messageRead>>
    /\ UNCHANGED <<shellVars, historyLimit, input>>
    /\ UNCHANGED <<env, providerOpt, command, pc, client, apiKey, cfgTimeout, timeoutFlag,
                   deadline, deadlinePassed, contextCollected, context, aliases,
                   history, prompt, httpRequests, reply, response, stdout, err,
                   exitCode>>

\* What a widget leaves of the line editor: the branch taken and the new
\* values of BUFFER, CURSOR, POSTDISPLAY, the zle -U input and the
\* autosuggestion calls.
Applied(b, buf, cur, post, pushed, sugg) ==
    [branch |-> b, BUFFER |-> buf, CURSOR |-> cur, POSTDISPLAY |-> post,
     zleInput |-> pushed, suggested |-> sugg]

Untouched(b) == Applied(b, BUFFER, CURSOR, POSTDISPLAY, zleInput, suggested)

\* _show_error_message: the message is displayed unless errors are silent.
ShowErrorMessage(b, message) ==
    Applied(b, BUFFER, CURSOR,
            IF silentErrors THEN POSTDISPLAY ELSE <<" [AI Error: ", message, "]">>,
            zleInput, suggested)

RECURSIVE Translate(_, _, _)
\* tr and sed 's/c/r/g': every character c of s replaced by the text r.
Translate(s, c, r) ==
    IF s = <<>> THEN s
    ELSE (IF Head(s) = c THEN r ELSE <<Head(s)>>) \o Translate(Tail(s), c, r)

\* The input _suggest_ai hands to the CLI: echo's output with newlines
\* turned into ';' and quotes escaped.
SuggestInput(buffer, cursor) ==
    Translate(Substitute(Translate(Append(SubSeq(buffer, 1, cursor), "\n"), "\n", <<";">>)),
              "\"", <<"\\", "\"">>)

\* _suggest_ai from the message read from the suggestion file on.
SuggestApply(message) ==
    IF message = <<>> \/ message = <<"+">> \/ message = <<"=">>
    THEN ShowErrorMessage("no_suggestion", "No suggestion available")
    ELSE IF message[1] = "="
    THEN Applied("replace", <<>>, 0, POSTDISPLAY, Append(zleInput, Tail(message)), suggested)
    ELSE IF message[1] = "+"
    THEN Applied("suggest", BUFFER, CURSOR, POSTDISPLAY, zleInput,
                 Append(suggested, SubSeq(BUFFER, 1, CURSOR) \o Tail(message)))
    ELSE Applied("fallback", <<>>, 0, POSTDISPLAY, Append(zleInput, message), suggested)

\* _predict_next_command from the prediction read from the file on.
PredictApply(predicted) ==
    IF predicted # <<>>
    THEN IF predicted[1] = "="
         THEN Applied("replace", <<>>, 0, POSTDISPLAY, Append(zleInput, Tail(predicted)),
                      suggested)
         ELSE IF predicted[1] = "+"
         THEN Applied("postdisplay", BUFFER, CURSOR, Tail(predicted), zleInput, suggested)
         ELSE Applied("fallback", BUFFER, CURSOR, POSTDISPLAY, zleInput,
                      Append(suggested, predicted))
    ELSE Untouched("history")

\* The widgets' InitWidget state: a key is about to be pressed.
InitWidget ==
    /\ env \in {[v \in EnvVars |-> ""], [v \in EnvVars |-> ApiKeys[v]]}
    /\ providerOpt \in {"", ProviderAnthropic, ProviderGemini}
    /\ cfgTimeout = 0
    /\ command = "none"
    /\ pc = "start"
    /\ client = "none"
    /\ apiKey = ""
    /\ timeoutFlag = 0
    /\ deadline = 0
    /\ deadlinePassed = FALSE
    /\ contextCollected = FALSE
    /\ context = BareContext
    /\ aliases = 0
    /\ history = <<>>
    /\ prompt = <<>>
    /\ httpRequests = 0
    /\ reply = NoReply
    /\ response = NoResponse
    /\ stdout = <<>>
    /\ err = ""
    /\ exitCode = -1
    /\ historyFile = [readable |-> TRUE, lines |-> <<CmdCd, CmdLs>>]
    /\ aliasesFail = FALSE
    /\ stdinText = ""
    /\ historyLimit = HistoryLimitDefault
    /\ input = ""
    /\ widget = "none"
    /\ fePc = "idle"
    /\ BUFFER \in Buffers
    /\ CURSOR \in 0..Len(BUFFER)
    /\ POSTDISPLAY = <<>>
    /\ zleInput = <<>>
    /\ suggested = <<>>
    /\ historyMoves = 0
    /\ tmpFiles \in {NoTmpFiles, StaleTmpFiles}
    /\ fetchCode = -1
    /\ branch = "none"
    /\ silentErrors \in BOOLEAN
    /\ debug \in BOOLEAN
    /\ cliRuns = 0
    /\ feRequests = 0
    /\ messageRead = <<>>

cliVars == <<shellVars, historyLimit, input, env, providerOpt, command, pc, client, apiKey, cfgTimeout, timeoutFlag,
             deadline, deadlinePassed, contextCollected, context, aliases,
             history, prompt, httpRequests, reply, response, stdout, err, exitCode>>

\* The completion key: _suggest_ai up to the start of _fetch_suggestions.
SuggestKey ==
    /\ fePc = "idle"
    /\ widget' = "suggest"
    /\ tmpFiles' = NoTmpFiles
    /\ IF SuggestInput(BUFFER, CURSOR) = <<>>
       THEN /\ fePc' = "done"
            /\ branch' = "no_input"
            /\ POSTDISPLAY' = ShowErrorMessage("no_input", "No input to complete").POSTDISPLAY
       ELSE /\ fePc' = "fetching"
            /\ UNCHANGED <<branch, POSTDISPLAY>>
    /\ UNCHANGED <<BUFFER, CURSOR, zleInput, suggested, historyMoves, fetchCode,
                   silentErrors, debug, cliRuns, feRequests, messageRead>>
    /\ UNCHANGED cliVars

\* The prediction key: _predict_next_command up to the start of
\* _fetch_prediction.
PredictKey ==
    /\ fePc = "idle"
    /\ widget' = "predict"
    /\ tmpFiles' = NoTmpFiles
    /\ IF BUFFER # <<>>
       THEN fePc' = "done" /\ branch' = "history" /\ historyMoves' = historyMoves + 1
       ELSE fePc' = "fetching" /\ branch' = branch /\ historyMoves' = historyMoves
    /\ UNCHANGED <<BUFFER, CURSOR, POSTDISPLAY, zleInput, suggested, fetchCode,
                   silentErrors, debug, cliRuns, feRequests, messageRead>>
    /\ UNCHANGED cliVars

\* The rest of _suggest_ai, once _fetch_suggestions has returned.
SuggestFinish ==
    /\ fePc = "fetched"
    /\ widget = "suggest"
    /\ LET response_code == IF tmpFiles.suggestion.exists THEN 0 ELSE 1
           failed == ~tmpFiles.suggestion.exists \/ response_code # 0
           error_msg == IF tmpFiles.error.exists /\ debug
                        THEN Substitute(tmpFiles.error.content)
                        ELSE "Service temporarily unavailable"
           a == IF failed THEN ShowErrorMessage("failed", error_msg)
                ELSE SuggestApply(Substitute(tmpFiles.suggestion.content))
       IN
       /\ messageRead' = IF failed THEN messageRead ELSE Substitute(tmpFiles.suggestion.content)
       /\ branch' = a.branch
       /\ BUFFER' = a.BUFFER
       /\ CURSOR' = a.CURSOR
       /\ POSTDISPLAY' = a.POSTDISPLAY
       /\ zleInput' = a.zleInput
       /\ suggested' = a.suggested
    /\ tmpFiles' = NoTmpFiles
    /\ fePc' = "done"
    /\ UNCHANGED <<widget, historyMoves, fetchCode, silentErrors, debug, cliRuns,
                   feRequests>>
    /\ UNCHANGED cliVars

\* The rest of _predict_next_command, once _fetch_prediction has returned.
PredictFinish ==
    /\ fePc = "fetched"
    /\ widget = "predict"
    /\ LET response_code == IF tmpFiles.prediction.exists THEN 0 ELSE 1
           failed == ~tmpFiles.prediction.exists \/ response_code # 0
           a == IF failed THEN Untouched("history")
                ELSE PredictApply(Substitute(tmpFiles.prediction.content))
       IN
       /\ messageRead' = IF failed THEN messageRead ELSE Substitute(tmpFiles.prediction.content)
       /\ branch' = a.branch
       /\ BUFFER' = a.BUFFER
       /\ CURSOR' = a.CURSOR
       /\ POSTDISPLAY' = a.POSTDISPLAY
       /\ zleInput' = a.zleInput
       /\ suggested' = a.suggested
       /\ historyMoves' = IF a.branch = "history" THEN historyMoves + 1 ELSE historyMoves
    /\ tmpFiles' = NoTmpFiles
    /\ fePc' = "done"
    /\ UNCHANGED <<widget, fetchCode, silentErrors, debug, cliRuns, feRequests>>
    /\ UNCHANGED cliVars

\* A key press, the CLI it runs with the widget's arguments (the input,
\* --timeout), and the widget's use of the result.
NextWidget ==
    \/ SuggestKey
    \/ PredictKey
    \/ /\ fePc = "fetching" /\ widget = "suggest"
       /\ \E t \in WidgetTimeouts : runCompleteStart(<<SuggestInput(BUFFER, CURSOR)>>, "", t)
    \/ /\ fePc = "fetching" /\ widget = "predict"
       /\ \E t \in WidgetTimeouts : runPredictStart(t, WidgetHistoryLimit)
    \/ DeadlineElapses
    \/ \E r \in WidgetReplies : runCompleteFinish(r)
    \/ \E r \in WidgetReplies : runPredictFinish(r)
    \/ FetchDone
    \/ SuggestFinish
    \/ PredictFinish

SpecWidget == InitWidget /\ [][NextWidget]_vars

\* Texts the CLI of another shell session prints.
OtherTexts == {<<"=", "r", "m">>}

\* _cleanup_temp_files in another shell session on the same machine.
OtherSessionCleanup ==
    /\ tmpFiles # NoTmpFiles
    /\ tmpFiles' = NoTmpFiles
    /\ UNCHANGED <<widget, fePc, BUFFER, CURSOR, POSTDISPLAY, zleInput, suggested,
                   historyMoves, fetchCode, branch, silentErrors, debug, cliRuns,
                   feRequests, messageRead>>
    /\ UNCHANGED cliVars

\* _fetch_suggestions or _fetch_prediction of another shell session
\* writes the result of its CLI.
OtherSessionFetchDone(file, result) ==
    /\ tmpFiles' = [tmpFiles EXCEPT
                      ![file] = [exists |-> TRUE, content |-> Append(CleanResult(result), "\n")]]
    /\ tmpFiles' # tmpFiles
    /\ UNCHANGED <<widget, fePc, BUFFER, CURSOR, POSTDISPLAY, zleInput, suggested,
                   historyMoves, fetchCode, branch, silentErrors, debug, cliRuns,
                   feRequests, messageRead>>
    /\ UNCHANGED cliVars

\* A shell session, and what another session does to the files in /tmp
\* meanwhile.
NextSessions ==
    \/ NextWidget
    \/ OtherSessionCleanup
    \/ \E file \in {"suggestion", "prediction"}, result \in OtherTexts :
          OtherSessionFetchDone(file, result)

SpecSessions == InitWidget /\ [][NextSessions]_vars

----------------------------------------------------------------------------
\* Properties of the response protocol.

\* The model's text as the clients see it after trimming.
Trimmed == TrimSpace(reply.text)

CompleteAnswered == pc = "exited" /\ command = "complete" /\ reply.kind = "ok"
PredictAnswered == pc = "exited" /\ command = "predict" /\ reply.kind = "ok"

StartsWithPrefix(s) == s # <<>> /\ s[1] \in {"+", "="}

\* Everything after the first character.
Rest(s) == SubSeq(s, 2, Len(s))

EmptyResponseErrors == {"empty response", "empty response from AI"}

\* C1: a non-empty trimmed response starting with '+' (also "+" alone) is
\* interpreted as a Completion whose payload is everything after the first
\* character, with nothing else removed.
C1_PlusIsCompletion ==
    (CompleteAnswered /\ Trimmed # <<>> /\ Trimmed[1] = "+")
        => /\ err = ""
           /\ response = [Type |-> TypeCompletion, Content |-> Rest(Trimmed)]

\* A completion whose payload begins with a space has been interpreted.
C1_Witness ==
    /\ CompleteAnswered
    /\ Trimmed = <<"+", " ", "a">>
    /\ response.Type = TypeCompletion

\* C2: a non-empty trimmed response starting with '=' (also "=" alone) is
\* interpreted as a Replacement whose payload is everything after the first
\* character.
C2_EqualsIsReplacement ==
    (CompleteAnswered /\ Trimmed # <<>> /\ Trimmed[1] = "=")
        => /\ err = ""
           /\ response = [Type |-> TypeReplacement, Content |-> Rest(Trimmed)]

\* The response "=" alone has been interpreted: a Replacement with an empty payload.
C2_Witness ==
    /\ CompleteAnswered
    /\ Trimmed = <<"=">>
    /\ response.Type = TypeReplacement

\* C3: on the completion path a non-empty trimmed response whose first
\* character is neither '+' nor '=' is interpreted as a Prediction carrying
\* the whole trimmed string.
C3_OtherIsPrediction ==
    (CompleteAnswered /\ Trimmed # <<>> /\ Trimmed[1] \notin {"+", "="})
        => /\ err = ""
           /\ response = [Type |-> TypePrediction, Content |-> Trimmed]

\* A response with a prefix character in second place has been interpreted.
C3_Witness ==
    /\ CompleteAnswered
    /\ Trimmed = <<"a", "+">>
    /\ response.Type = TypePrediction

\* C4: a response that is empty after trimming fails with an empty-response
\* error in complete and in predict, for every provider, and nothing is
\* printed.
C4_EmptyFails ==
    ((CompleteAnswered \/ PredictAnswered) /\ Trimmed = <<>>)
        => /\ exitCode = 1
           /\ err \in EmptyResponseErrors
           /\ stdout = <<>>

\* A whitespace-only response has been rejected by predict.
C4_Witness ==
    /\ PredictAnswered
    /\ reply.text = <<" ">>
    /\ exitCode = 1

\* C5: in predict a non-empty trimmed response whose first character is
\* neither '+' nor '=' fails with the invalid-format error, for every
\* provider, and nothing is printed.
C5_StrictRejectsUnprefixed ==
    (PredictAnswered /\ Trimmed # <<>> /\ Trimmed[1] \notin {"+", "="})
        => /\ exitCode = 1
           /\ err = "invalid response format"
           /\ stdout = <<>>

\* An unprefixed response has been rejected by predict with a parsing client.
C5_Witness ==
    /\ PredictAnswered
    /\ client = ProviderGemini
    /\ Trimmed = <<"a">>
    /\ err = "invalid response format"

\* C6: in predict a trimmed response starting with '+' or '=' is printed as
\* it is, prefix included, and predict succeeds, whichever provider is
\* configured.
C6_PredictPrintsPrefixed ==
    (PredictAnswered /\ StartsWithPrefix(Trimmed))
        => /\ exitCode = 0
           /\ stdout = Trimmed

\* C7: whenever predict exits successfully its output is non-empty and
\* begins with '+' or '='.
C7_PredictOutputPrefixed ==
    (pc = "exited" /\ command = "predict" /\ exitCode = 0)
        => StartsWithPrefix(stdout)

\* predict has succeeded with a parsing client.
C7_Witness ==
    /\ pc = "exited"
    /\ command = "predict"
    /\ exitCode = 0
    /\ client = ProviderGroq

\* The kind of failure an error stands for.
ErrorKind(e) == IF e \in EmptyResponseErrors THEN "empty response" ELSE e

\* C8: for the same reply the outcome of predict (the output, or the kind
\* of failure) is the same whichever provider's client handled it.
C8_ProvidersInterchangeable ==
    (pc = "exited" /\ command = "predict" /\ reply # NoReply)
        => \A q \in ProviderNames :
              /\ PredictResult(q, reply).out = stdout
              /\ ErrorKind(PredictResult(q, reply).err) = ErrorKind(err)

\* C9: whenever complete succeeds it prints '+' and the payload for a
\* Completion, '=' and the payload for a Replacement, the payload alone for
\* a Prediction, and what it prints is the trimmed model response.
C9_CompleteRoundTrip ==
    (pc = "exited" /\ command = "complete" /\ exitCode = 0)
        => /\ response.Type = TypeCompletion => stdout = <<"+">> \o response.Content
           /\ response.Type = TypeReplacement => stdout = <<"=">> \o response.Content
           /\ response.Type = TypePrediction => stdout = response.Content
           /\ stdout = Trimmed

\* complete has printed a replacement.
C9_Witness ==
    /\ pc = "exited"
    /\ command = "complete"
    /\ exitCode = 0
    /\ response.Type = TypeReplacement
    /\ stdout = <<"=", "a">>

\* C10: the interpreter's result is a function of the text alone, whatever
\* the provider and the environment, and is the same for a text and for the
\* trimmed text; interpreting changes nothing but the result.
C10_InterpreterPure ==
    [][(pc = "waiting" /\ command = "complete" /\ reply'.kind = "ok")
          => /\ [resp |-> response', err |-> err'] = parseResponse(TrimSpace(reply'.text))
             /\ parseResponse(reply'.text) = parseResponse(TrimSpace(reply'.text))
             /\ UNCHANGED <<env, providerOpt, client, httpRequests, command>>]_vars

\* A text with whitespace on both sides has been interpreted.
C10_Witness ==
    /\ CompleteAnswered
    /\ reply.text = <<" ", "+", " ">>
    /\ response = [Type |-> TypeCompletion, Content |-> <<>>]

----------------------------------------------------------------------------
\* Properties of configuration, transport and timeout.

\* The providers in the order auto-detection is documented to prefer them.
Precedence == <<ProviderOpenAI, ProviderAnthropic, ProviderGemini, ProviderGroq>>

\* Positions in Precedence of the providers whose key variable is set.
WithKey == {i \in 1..4 : env[KeyVarOf(Precedence[i])] # ""}

FirstWithKey == Precedence[CHOOSE i \in WithKey : \A j \in WithKey : i <= j]

\* The command got past its input check with no provider option set, so
\* the provider was auto-detected.
AutoDetected ==
    /\ pc # "start"
    /\ providerOpt = ""
    /\ err # "input is required"

\* C12: auto-detection picks the first provider in the order OpenAI,
\* Anthropic, Gemini, Groq whose key variable is non-empty, with that
\* variable's key, and finds no provider exactly when all four are empty.
C12_DetectionPrecedence ==
    AutoDetected =>
        IF WithKey = {}
        THEN client = "none" /\ apiKey = "" /\ err = "no AI provider found"
        ELSE /\ client = FirstWithKey
             /\ apiKey = env[KeyVarOf(FirstWithKey)]
             /\ apiKey = ApiKeys[KeyVarOf(FirstWithKey)]
             /\ err # "no AI provider found"

\* Gemini was detected although Groq's key is set too.
C12_Witness ==
    /\ AutoDetected
    /\ env["OPENAI_API_KEY"] = "" /\ env["ANTHROPIC_API_KEY"] = ""
    /\ env["GEMINI_API_KEY"] # "" /\ env["GROQ_API_KEY"] # ""
    /\ client = ProviderGemini
    /\ apiKey = "key-gemini"

\* No provider can be resolved from the option and the environment.
ConfigurationBroken ==
    \/ providerOpt = "" /\ \A v \in EnvVars : env[v] = ""
    \/ providerOpt # "" /\ providerOpt \notin ProviderNames
    \/ providerOpt \in ProviderNames /\ env[KeyVarOf(providerOpt)] = ""

C14_Non2xxFails ==
    (pc = "exited" /\ reply.status = 500)
        => /\ response = NoResponse
           /\ exitCode = 1
           /\ stdout = <<>>

C16_TimeoutFails ==
    (pc = "exited" /\ deadlinePassed)
        => /\ exitCode = 1
           /\ err # ""
           /\ response = NoResponse
           /\ stdout = <<>>

\* A command whose deadline elapsed has exited on the abandoned call.
C16_Witness ==
    /\ pc = "exited"
    /\ deadlinePassed
    /\ reply.kind = "send_failed"
    /\ err = "failed to send request"

\* C17: with the timeout option set in the configuration document and no
\* --timeout flag, the request's deadline is the configured timeout.
C17_ConfigTimeoutUsed ==
    (deadline # 0 /\ cfgTimeout # 0 /\ timeoutFlag = 0)
        => deadline = cfgTimeout

----------------------------------------------------------------------------
\* Properties of prompt assembly.

PromptBuilt == prompt # <<>>

IsAliasPart(p) == p.kind = "alias"
IsOutputPart(p) == p.kind = "Output"
IsErrorPart(p) == p.kind = "Error"

AliasParts == SelectSeq(prompt, IsAliasPart)

\* The aliases the prompt's alias lines name.
AliasNames == {AliasParts[i].text : i \in DOMAIN AliasParts}

HasHeader(h) == \E i \in DOMAIN prompt : prompt[i].kind = "header" /\ prompt[i].text = h

\* C18: a completion prompt holds exactly min(n, 10) alias lines and a
\* prediction prompt exactly min(n, 15), n the number of aliases of the
\* Context, and the lines name distinct aliases of the Context.
C18_AliasLinesBounded ==
    PromptBuilt =>
        LET cap == IF command = "complete" THEN 10 ELSE 15 IN
        /\ Len(AliasParts) = (IF aliases < cap THEN aliases ELSE cap)
        /\ Cardinality(AliasNames) = Len(AliasParts)
        /\ AliasNames \subseteq 1..aliases

\* A prediction prompt was built from more aliases than it may hold.
C18_Witness ==
    /\ PromptBuilt
    /\ command = "predict"
    /\ aliases = 16
    /\ Len(AliasParts) = 15

\* C19: the aliases header and the history header are in a prompt exactly
\* when the prompt has that section and its collection is non-empty; with
\* no aliases and no history neither prompt has either header.
C19_EmptySectionsOmitted ==
    PromptBuilt =>
        IF command = "complete"
        THEN /\ HasHeader("ALIASES:") <=> aliases > 0
             /\ ~HasHeader("\nAVAILABLE ALIASES:")
             /\ ~HasHeader("\nRECENT HISTORY:")
        ELSE /\ HasHeader("\nAVAILABLE ALIASES:") <=> aliases > 0
             /\ HasHeader("\nRECENT HISTORY:") <=> history # <<>>
             /\ ~HasHeader("ALIASES:")

\* A prediction prompt was built from no aliases and no history.
C19_Witness ==
    /\ PromptBuilt
    /\ command = "predict"
    /\ aliases = 0
    /\ history = <<>>
    /\ ~HasHeader("\nRECENT HISTORY:")
    /\ ~HasHeader("\nAVAILABLE ALIASES:")

HasOutput(e) == e.Output # <<>> /\ e.Output # OutputNotAvailable
HasErrorOutput(e) == e.ErrorOutput # <<>>

IsMultiLine(t) == \E i \in DOMAIN t : t[i] = "\n"

\* Lines of a rendered text that are not the truncation marker.
LinesKept(t) == Cardinality({k \in DOMAIN Split(t) : Split(t)[k] # TruncatedMarker})

EndsWithMarker(t) ==
    /\ Len(t) >= Len(TruncatedMarker)
    /\ SubSeq(t, Len(t) - Len(TruncatedMarker) + 1, Len(t)) = TruncatedMarker

\* Characters of a rendered text that are not the truncation marker's.
CharsKept(t) == IF EndsWithMarker(t) THEN Len(t) - Len(TruncatedMarker) ELSE Len(t)

----------------------------------------------------------------------------
\* Properties of the front end.

ApplyBranches == {"replace", "suggest", "postdisplay", "fallback"}

\* The CLI succeeded and printed a prefix character alone.
PrefixOnlyOutput == exitCode = 0 /\ stdout \in {<<"+">>, <<"=">>}

\* C11: when the CLI prints "+" or "=" alone, the completion widget and
\* the prediction widget both end on their no-suggestion path: no apply
\* branch runs, and the buffer, zle -U and the displayed suggestion are
\* left alone.
C11_PrefixOnlyNotApplied ==
    (fePc = "done" /\ PrefixOnlyOutput)
        => /\ branch \notin ApplyBranches
           /\ zleInput = <<>>
           /\ suggested = <<>>

----------------------------------------------------------------------------
\* Properties of history and alias collection.

\* runPredict has its client and is past GetRecentHistory.
PredictRequested == command = "predict" /\ pc # "start" /\ httpRequests > 0

Panicked == pc = "exited" /\ exitCode = PanicExitCode

\* The commands of the history file, in file order.
FileCommands ==
    LET all == ParsedEntries(historyFile.lines) IN [i \in DOMAIN all |-> all[i].Command]

Max(a, b) == IF a > b THEN a ELSE b

\* C21: with a limit L >= 0 and n commands in the history file, the
\* history of the request is the last min(L, max(n-1, 0)) commands before
\* the final one, in file order, and never longer than L.
C21_RecentHistory ==
    (PredictRequested /\ historyFile.readable /\ historyLimit >= 0) =>
        LET n == Len(FileCommands)
            prior == Max(n - 1, 0)
            k == Min(historyLimit, prior)
        IN
        /\ Len(history) = k
        /\ \A i \in 1..k : history[i].Command = FileCommands[prior - k + i]
        /\ Len(history) <= historyLimit

\* A file of three commands was read with limit 1: the second is returned.
C21_Witness ==
    /\ PredictRequested
    /\ historyFile.readable
    /\ Len(FileCommands) = 3
    /\ Len(historyFile.lines) = 3
    /\ historyLimit = 1
    /\ Len(history) = 1
    /\ history[1].Command = FileCommands[2]

CollectionFailed == ~historyFile.readable \/ aliasesFail

C28_AnyLimitSafe ==
    (command = "predict" /\ pc # "start") =>
        /\ ~Panicked
        /\ Len(history) <= Max(historyLimit, 0)

Placeholders == {OutputNotAvailable, GitStatusNotAvailable, KubectlNotAvailable}

\* C29: no "Output:" line of the prediction prompt holds a placeholder of
\* history enrichment; an entry whose output is a placeholder has no
\* Output line.
C29_PlaceholdersNotRendered ==
    (PredictRequested /\ historyLimit >= 0) =>
        LET outs == SelectSeq(prompt, IsOutputPart) IN
        /\ \A i \in DOMAIN outs : outs[i].text \notin Placeholders
        /\ Len(outs) = Cardinality({i \in DOMAIN history : history[i].Output \notin Placeholders
                                                            /\ history[i].Output # <<>>})

----------------------------------------------------------------------------
\* Properties of the commands' exit.

\* The failures a run detects: no input, a broken configuration, a failed
\* exchange (network, error payload, undecodable body, timeout), an empty
\* model text and, for predict, a text without prefix.
DetectedFailure ==
    \/ command = "complete" /\ input = ""
    \/ ConfigurationBroken
    \/ reply.kind \in FailedReplyKinds
    \/ reply.kind = "ok" /\ Trimmed = <<>>
    \/ command = "predict" /\ reply.kind = "ok" /\ ~StartsWithPrefix(Trimmed)

\* The HTTP response has a status other than 2xx.
Non2xx == reply.status # 0 /\ reply.status \notin 200..299

\* The failures of a run: the detected ones and the transport failure of
\* a non-2xx response.
RunFailed == DetectedFailure \/ Non2xx

\* Detected failures exit nonzero with nothing on stdout, and a run that
\* exits nonzero has printed nothing.
DetectedFailuresExitSilent ==
    pc = "exited" =>
        /\ DetectedFailure => (exitCode # 0 /\ err # "" /\ stdout = <<>>)
        /\ exitCode # 0 => stdout = <<>>
        /\ exitCode = 0 => (err = "" /\ stdout # <<>>)

\* C23: a failed run of complete or predict exits nonzero with nothing
\* written to stdout; only a run that exits zero has written a suggestion.
C23_FailureExitsSilent ==
    pc = "exited" =>
        /\ RunFailed => (exitCode # 0 /\ err # "" /\ stdout = <<>>)
        /\ exitCode # 0 => stdout = <<>>
        /\ exitCode = 0 => (err = "" /\ stdout # <<>>)

\* C24: complete run without argument (and without --input) while text
\* waits on standard input completes that text.
C24_StdinAccepted ==
    (command = "complete" /\ pc # "start" /\ stdinText # "")
        => /\ err # "input is required"
           /\ input \in {"a", stdinText}

\* C27: the Response a client returns is Completion exactly for a trimmed
\* text starting with '+', Replacement exactly for one starting with '=',
\* Prediction otherwise; the Content of a Completion or Replacement is the
\* text after the prefix, and the Content of a Prediction starts with
\* neither prefix.
C27_TaggedVariant ==
    (pc = "exited" /\ response # NoResponse) =>
        /\ response.Type = TypeCompletion <=> (Trimmed # <<>> /\ Trimmed[1] = "+")
        /\ response.Type = TypeReplacement <=> (Trimmed # <<>> /\ Trimmed[1] = "=")
        /\ response.Type = TypePrediction <=> ~StartsWithPrefix(Trimmed)
        /\ response.Type \in {TypeCompletion, TypeReplacement}
              => response.Content = Rest(Trimmed)
        /\ response.Type = TypePrediction => ~StartsWithPrefix(response.Content)

----------------------------------------------------------------------------
\* Properties of the front end's failures, sessions and CLI runs.

\* The widget returns from a request whose CLI failed.
FailedFetchReturns == fePc = "fetched" /\ fetchCode # 0 /\ fePc' = "done"

\* C25: when the CLI a widget ran has failed, the widget leaves BUFFER
\* and CURSOR as they are and removes the temporary files, and the
\* prediction widget calls down-line-or-history.
C25_FailureFallsBack ==
    [][FailedFetchReturns =>
          /\ BUFFER' = BUFFER
          /\ CURSOR' = CURSOR
          /\ zleInput' = zleInput
          /\ suggested' = suggested
          /\ tmpFiles' = NoTmpFiles
          /\ widget = "predict" => historyMoves' = historyMoves + 1]_vars

\* The text the session's own CLI run left for the widget.
OwnResult == CleanResult(Substitute(stdout))

\* C26: what a widget applies is the output of the CLI it ran itself, and
\* the result file a request wrote is there, with that content, when the
\* widget comes to read it.
C26_SessionsIsolated ==
    /\ (fePc = "done" /\ branch \in ApplyBranches) => (exitCode = 0 /\ messageRead = OwnResult)
    /\ (fePc = "fetched" /\ fetchCode = 0) =>
          LET file == IF widget = "suggest" THEN tmpFiles.suggestion ELSE tmpFiles.prediction
          IN file.exists /\ Substitute(file.content) = OwnResult

\* C30: one call of _fetch_suggestions or _fetch_prediction runs the CLI
\* once and causes at most one HTTP request, whatever ZSH_COPILOT_DEBUG is.
C30_OneRunPerKeyPress ==
    fePc \in {"fetched", "done"} /\ cliRuns > 0 => (cliRuns = 1 /\ feRequests <= 1)

====
